---- MODULE Spec2Model ----
(***************************************************************************)
(* Retrieval-and-disambiguation pipeline of the heart-health chatbot:      *)
(* the context matcher (find_best_context), the intent router              *)
(* (match_columns) and the orchestrator (get_response).                    *)
(*                                                                         *)
(* Text is a sequence of one-character strings, so that lower(), split(),  *)
(* join() and find() are computed as Python computes them.  Answer texts   *)
(* of the knowledge base are opaque strings.  Similarity scores are in     *)
(* units of 1/300, so that 0.65 is 195, 0.3 is 90, and the average of      *)
(* three scores given in hundredths is exact.                              *)
(***************************************************************************)
EXTENDS Integers, Sequences, FiniteSets, TLC

VARIABLES
    pc,         \* which function has been applied to the inputs ("start": none yet)
    query,      \* the query text (user_input) handed to the function
    threshold,  \* the threshold argument
    scores,     \* cosine similarities of the query to each record's embeddings
    record,     \* the best_match_response argument of match_columns
    spell,      \* the spell checker's dictionary: word -> correction
    best_column,        \* the column whose name embedding is most similar to the query
    retry_scores,       \* as `scores`, for the spelling-corrected text
    relevance_scores,   \* similarities of the corrected text to the domain keywords
    fbc,        \* locals and return value of find_best_context
    mc,         \* locals and return value of match_columns
    gr,         \* outcome of get_response
    df,         \* the rows of the knowledge-base CSV, read at import time
    session,    \* the session store of the stateful variant (the session cookie)
    requests,   \* the chatbot requests in progress: position and locals of each
    turns,      \* the number of chatbot requests received so far
    idr,        \* return value of is_domain_relevant
    close,      \* what get_close_matches finds in the word set: text -> matches
    dcs         \* locals and return value of dict.correct_spelling

inputs == <<query, threshold, scores, record, spell, best_column, retry_scores,
            relevance_scores, df, close>>
conversation == <<session, requests, turns>>
vars == <<pc, inputs, fbc, mc, gr, conversation, idr, dcs>>

(***************************************************************************)
(* Python text primitives                                                  *)
(***************************************************************************)
UpperAlphabet == <<"A","B","C","D","E","F","G","H","I","J","K","L","M","N","O","P","Q","R","S","T","U","V","W","X","Y","Z">>
LowerAlphabet == <<"a","b","c","d","e","f","g","h","i","j","k","l","m","n","o","p","q","r","s","t","u","v","w","x","y","z">>
Whitespace == {" ", "\t", "\n"}

\* str.lower() on one character
LowerMap == [c \in {UpperAlphabet[i] : i \in 1..Len(UpperAlphabet)} |->
                LowerAlphabet[CHOOSE i \in 1..Len(UpperAlphabet) : UpperAlphabet[i] = c]]

LowerChar(c) == IF c \in DOMAIN LowerMap THEN LowerMap[c] ELSE c

\* str.lower()
Lower(s) == [i \in 1..Len(s) |-> LowerChar(s[i])]

\* str.strip()
RECURSIVE Strip(_)
Strip(s) ==
    IF s = <<>> THEN s
    ELSE IF s[1] \in Whitespace THEN Strip(Tail(s))
    ELSE IF s[Len(s)] \in Whitespace THEN Strip(SubSeq(s, 1, Len(s) - 1))
    ELSE s

\* str.split(): the maximal runs of non-whitespace characters, in order
RECURSIVE SplitFrom(_, _, _, _)
SplitFrom(s, i, cur, acc) ==
    IF i > Len(s) THEN (IF cur = <<>> THEN acc ELSE Append(acc, cur))
    ELSE IF s[i] \in Whitespace
         THEN SplitFrom(s, i + 1, <<>>, IF cur = <<>> THEN acc ELSE Append(acc, cur))
         ELSE SplitFrom(s, i + 1, Append(cur, s[i]), acc)

Split(s) == SplitFrom(s, 1, <<>>, <<>>)

\* sep.join(parts) on character sequences
RECURSIVE Join(_, _)
Join(sep, parts) ==
    IF parts = <<>> THEN <<>>
    ELSE IF Len(parts) = 1 THEN parts[1]
    ELSE parts[1] \o sep \o Join(sep, Tail(parts))

\* sep.join(parts) on opaque strings
RECURSIVE JoinStr(_, _)
JoinStr(sep, parts) ==
    IF parts = <<>> THEN ""
    ELSE IF Len(parts) = 1 THEN parts[1]
    ELSE parts[1] \o sep \o JoinStr(sep, Tail(parts))

\* whether sub occurs in s at 0-based offset p
RECURSIVE MatchesFrom(_, _, _, _)
MatchesFrom(s, sub, p, k) ==
    \/ k > Len(sub)
    \/ (s[p + k] = sub[k] /\ MatchesFrom(s, sub, p, k + 1))

OccursAt(s, sub, p) ==
    /\ p + Len(sub) <= Len(s)
    /\ MatchesFrom(s, sub, p, 1)

\* str.find(sub): the lowest 0-based offset at which sub occurs, -1 if none
RECURSIVE FindFrom(_, _, _)
FindFrom(s, sub, p) ==
    IF p + Len(sub) > Len(s) THEN -1
    ELSE IF OccursAt(s, sub, p) THEN p
    ELSE FindFrom(s, sub, p + 1)

Find(s, sub) == FindFrom(s, sub, 0)

\* set(list)
ToSet(seq) == {seq[i] : i \in 1..Len(seq)}

\* max(list) of a non-empty list of numbers
MaxOf(seq) == CHOOSE m \in ToSet(seq) : \A x \in ToSet(seq) : x <= m

(***************************************************************************)
(* The knowledge base.  The records and answer texts are those the         *)
(* repository's end-to-end test expects; a column the test does not show   *)
(* is shown empty or with a placeholder text.                              *)
(***************************************************************************)
NumRecords == 2

KnowledgeBase == <<
    [trigger_word |-> <<"C","h","o","l","e","s","t","e","r","o","l">>,
     What |-> "Cholesterol is a type of fat found in your blood.",
     Symptoms |-> "",
     Why |-> "",
     How |-> "Eat a low-fat diet, exercise regularly, and take prescribed medications."],
    [trigger_word |-> <<"A","n","g","i","n","a">>,
     What |-> "Angina is chest pain caused by reduced blood flow to the heart.",
     Symptoms |-> "",
     Why |-> "It signals an increased risk of heart attack.",
     How |-> "Manage stress, avoid heavy meals, and follow a healthy lifestyle."],
    [trigger_word |-> <<"M","y","o","c","a","r","d","i","a","l"," ","i","n","f","a","r","c","t","i","o","n">>,
     What |-> "Myocardial infarction is a heart attack.",
     Symptoms |-> "",
     Why |-> "",
     How |-> ""],
    [trigger_word |-> <<"C","a","r","d","i","o","v","a","s","c","u","l","a","r">>,
     What |-> "Cardiovascular refers to the heart and blood vessels.",
     Symptoms |-> "",
     Why |-> "",
     How |-> ""] >>

\* a knowledge base with an incomplete row: the Cholesterol row has no What cell
\* (df.fillna('') turns a missing cell into the empty string)
IncompleteKnowledgeBase ==
    [KnowledgeBase EXCEPT ![1] = [KnowledgeBase[1] EXCEPT !.What = ""]]

\* the global `database`: the rows loaded at import time
database == SubSeq(df, 1, NumRecords)

(***************************************************************************)
(* Similarity scores.  cosine_similarity(query_embedding, e) is a black    *)
(* box; its value for each embedding of each record is an input.           *)
(***************************************************************************)
StrongScore == 195      \* 0.65

TriggerScores == {-90, 180, 195, 270}
SynonymScoreLists == {<<>>, <<90>>, <<270, 90>>}
KeywordScoreLists == {<<>>, <<195>>, <<90, -90>>}
Thresholds == {90, 120}

ScoreRows == [trigger_score : TriggerScores,
              synonym_scores : SynonymScoreLists,
              keyword_scores : KeywordScoreLists]

Max3(a, b, c) == MaxOf(<<a, b, c>>)

\* the per-record scores computed at the top of the loop body
RecordScores(row) ==
    LET max_synonym_score == IF row.synonym_scores # <<>> THEN MaxOf(row.synonym_scores) ELSE 0
        max_keyword_score == IF row.keyword_scores # <<>> THEN MaxOf(row.keyword_scores) ELSE 0
        max_scores_sum == row.trigger_score + max_synonym_score + max_keyword_score
    IN  [trigger_score |-> row.trigger_score,
         max_synonym_score |-> max_synonym_score,
         max_keyword_score |-> max_keyword_score,
         avg_score |-> max_scores_sum \div 3]

\* the condition of the first `if` of the loop body
IsStrongMatch(s) ==
    \/ s.trigger_score >= StrongScore
    \/ s.max_synonym_score >= StrongScore
    \/ s.max_keyword_score >= StrongScore

\* the last three conjuncts of the second `if` of the loop body
AllBelowStrong(s) ==
    /\ s.trigger_score < StrongScore
    /\ s.max_synonym_score < StrongScore
    /\ s.max_keyword_score < StrongScore

(***************************************************************************)
(* chatbot/response_generation.py: find_best_context                       *)
(* Records are referred to by their index in `database`.                   *)
(***************************************************************************)
\* Pass 1: the indices match_generator yields, in order
RECURSIVE match_generator_from(_, _)
match_generator_from(query_words, index) ==
    IF index > Len(database) THEN <<>>
    ELSE LET trigger_word == Lower(database[index].trigger_word)
             trigger_words == Split(trigger_word)
             common_words == ToSet(trigger_words) \cap ToSet(query_words)
         IN  (IF common_words # {} THEN <<index>> ELSE <<>>)
                \o match_generator_from(query_words, index + 1)

\* faulty variant: the generator stops after its first record
match_generator_first_only(query_words) ==
    LET all == match_generator_from(query_words, 1)
    IN  IF all = <<>> THEN <<>> ELSE <<all[1]>>

match_generator(query_words) == match_generator_from(query_words, 1)

\* the locals before the scoring loop
ScanInit ==
    [best_match_score |-> 0,
     best_max_match_score |-> 0,
     best_match_response |-> <<>>,
     best_max_match_response |-> <<>>,
     best_match_type |-> "None",
     best_max_match_type |-> "None"]

\* faulty variant: the strong bucket keeps only the record of the current iteration
ScanStep_strong_overwrites(st, index, row) ==
    LET s == RecordScores(row)
        st1 == IF IsStrongMatch(s)
               THEN [st EXCEPT
                        !.best_max_match_score =
                            Max3(s.trigger_score, s.max_synonym_score, s.max_keyword_score),
                        !.best_max_match_response = <<index>>,
                        !.best_max_match_type = "Max Match"]
               ELSE st
    IN  IF s.avg_score > st1.best_match_score /\ AllBelowStrong(s)
        THEN [st1 EXCEPT
                 !.best_match_score = s.avg_score,
                 !.best_match_response = Append(@, index),
                 !.best_match_type = "Avg Max Match"]
        ELSE st1

\* one iteration of the scoring loop, on record `index`
ScanStep(st, index, row) ==
    LET s == RecordScores(row)
        st1 == IF IsStrongMatch(s)
               THEN [st EXCEPT
                        !.best_max_match_score =
                            Max3(s.trigger_score, s.max_synonym_score, s.max_keyword_score),
                        !.best_max_match_response = Append(@, index),
                        !.best_max_match_type = "Max Match"]
               ELSE st
    IN  IF s.avg_score > st1.best_match_score /\ AllBelowStrong(s)
        THEN [st1 EXCEPT
                 !.best_match_score = s.avg_score,
                 !.best_match_response = Append(@, index),
                 !.best_match_type = "Avg Max Match"]
        ELSE st1

\* the scoring loop over records 1..n
RECURSIVE Scan(_, _)
Scan(rows, n) ==
    IF n = 0 THEN ScanInit ELSE ScanStep(Scan(rows, n - 1), n, rows[n])

\* faulty variant: the avg branch no longer compares the two running bests
Decide_threshold_only(st, thr) ==
    IF st.best_match_score >= thr
    THEN [branch |-> "avg", none |-> FALSE, records |-> st.best_match_response]
    ELSE IF st.best_max_match_score > st.best_match_score
    THEN [branch |-> "strong", none |-> FALSE, records |-> st.best_max_match_response]
    ELSE [branch |-> "none", none |-> TRUE, records |-> <<>>]

\* faulty variant: the threshold test is strict
Decide_strict_threshold(st, thr) ==
    IF st.best_match_score > thr /\ st.best_max_match_score < st.best_match_score
    THEN [branch |-> "avg", none |-> FALSE, records |-> st.best_match_response]
    ELSE IF st.best_max_match_score > st.best_match_score
    THEN [branch |-> "strong", none |-> FALSE, records |-> st.best_max_match_response]
    ELSE [branch |-> "none", none |-> TRUE, records |-> <<>>]

\* the decision after the loop: which list is returned
Decide(st, thr) ==
    IF st.best_match_score >= thr /\ st.best_max_match_score < st.best_match_score
    THEN [branch |-> "avg", none |-> FALSE, records |-> st.best_match_response]
    ELSE IF st.best_max_match_score > st.best_match_score
    THEN [branch |-> "strong", none |-> FALSE, records |-> st.best_max_match_response]
    ELSE [branch |-> "none", none |-> TRUE, records |-> <<>>]

find_best_context(q, thr, rows) ==
    LET query_words == Split(Lower(Strip(q)))
        matches == match_generator(query_words)
        st == Scan(rows, Len(database))
        d == Decide(st, thr)
    IN  IF matches # <<>>
        THEN [branch |-> "lexical", none |-> FALSE, records |-> matches,
              matches |-> matches, locals |-> ScanInit]
        ELSE [branch |-> d.branch, none |-> d.none, records |-> d.records,
              matches |-> matches, locals |-> st]

(***************************************************************************)
(* utils/analyse_dataframe.py: find_best_context (single-record variant,   *)
(* no lexical pass).  A response is a record index, 0 for None.            *)
(***************************************************************************)
analyse_ScanInit ==
    [best_match_score |-> 0,
     best_max_match_score |-> 0,
     best_match_response |-> 0,
     best_max_match_response |-> 0,
     best_match_type |-> "None",
     best_max_match_type |-> "None"]

analyse_ScanStep(st, index, row) ==
    LET s == RecordScores(row)
        st1 == IF IsStrongMatch(s)
               THEN [st EXCEPT
                        !.best_max_match_score =
                            Max3(s.trigger_score, s.max_synonym_score, s.max_keyword_score),
                        !.best_max_match_response = index,
                        !.best_max_match_type = "Max Match"]
               ELSE st
    IN  IF s.avg_score > st1.best_match_score /\ AllBelowStrong(s)
        THEN [st1 EXCEPT
                 !.best_match_score = s.avg_score,
                 !.best_match_response = index,
                 !.best_match_type = "Avg Max Match"]
        ELSE st1

RECURSIVE analyse_Scan(_, _)
analyse_Scan(rows, n) ==
    IF n = 0 THEN analyse_ScanInit
    ELSE analyse_ScanStep(analyse_Scan(rows, n - 1), n, rows[n])

\* a returned response as the list of the records it holds
AsList(response) == IF response = 0 THEN <<>> ELSE <<response>>

analyse_Decide(st, thr) ==
    IF st.best_match_score >= thr /\ st.best_max_match_score < st.best_match_score
    THEN [branch |-> "avg", none |-> st.best_match_response = 0,
          records |-> AsList(st.best_match_response)]
    ELSE IF st.best_max_match_score > st.best_match_score
    THEN [branch |-> "strong", none |-> st.best_max_match_response = 0,
          records |-> AsList(st.best_max_match_response)]
    ELSE [branch |-> "none", none |-> TRUE, records |-> <<>>]

analyse_find_best_context(q, thr, rows) ==
    LET st == analyse_Scan(rows, Len(database))
        d == analyse_Decide(st, thr)
    IN  [branch |-> d.branch, none |-> d.none, records |-> d.records,
         matches |-> <<>>, locals |-> st]

(***************************************************************************)
(* maxFromEachColumn.py: find_best_context.  The loop returns the record   *)
(* of the first strong iteration; the average bucket is looked at only     *)
(* after the loop.                                                         *)
(***************************************************************************)
max_ScanInit ==
    [best_match_score |-> 0,
     best_match_response |-> 0,
     best_match_type |-> "None"]

\* the iterations from `index` on, and the decision after the loop
RECURSIVE max_Scan(_, _, _, _)
max_Scan(rows, index, st, thr) ==
    IF index > Len(database)
    THEN IF st.best_match_score >= thr
         THEN [branch |-> "avg", none |-> st.best_match_response = 0,
               records |-> AsList(st.best_match_response),
               matches |-> <<>>, locals |-> st]
         ELSE [branch |-> "none", none |-> TRUE, records |-> <<>>,
               matches |-> <<>>, locals |-> st]
    ELSE LET s == RecordScores(rows[index])
         IN  IF IsStrongMatch(s)
             THEN [branch |-> "strong", none |-> FALSE, records |-> <<index>>,
                   matches |-> <<>>, locals |-> st]
             ELSE IF s.avg_score > st.best_match_score /\ AllBelowStrong(s)
             THEN max_Scan(rows, index + 1,
                           [best_match_score |-> s.avg_score,
                            best_match_response |-> index,
                            best_match_type |-> "Avg Max Match"], thr)
             ELSE max_Scan(rows, index + 1, st, thr)

\* faulty variant: the loop runs to its end and the last strong record wins
max_find_best_context_last_strong(q, thr, rows) ==
    LET strong == {i \in 1..Len(database) : IsStrongMatch(RecordScores(rows[i]))}
    IN  IF strong # {}
        THEN [branch |-> "strong", none |-> FALSE,
              records |-> <<CHOOSE m \in strong : \A x \in strong : x <= m>>,
              matches |-> <<>>, locals |-> max_ScanInit]
        ELSE max_Scan(rows, 1, max_ScanInit, thr)

max_find_best_context(q, thr, rows) == max_Scan(rows, 1, max_ScanInit, thr)

(***************************************************************************)
(* The text normalizer: helpers.correct_spelling, as Logic1_OnlyCSV.py and *)
(* maxFromEachColumn.py define it.  The spell checker is a black box: a    *)
(* dictionary `sp` gives the correction of the words it does not know      *)
(* (<<>> for None); a word outside its domain is corrected to itself.      *)
(***************************************************************************)
spellchecker_correction(word, sp) == IF word \in DOMAIN sp THEN sp[word] ELSE word

\* faulty variant: one-word texts are corrected as well
correct_spelling_any_length(text, sp) ==
    LET words == Split(text)
    IN  Join(<<" ">>,
             [i \in 1..Len(words) |->
                 IF spellchecker_correction(words[i], sp) # <<>>
                 THEN spellchecker_correction(words[i], sp)
                 ELSE words[i]])

correct_spelling(text, sp) ==
    LET words == Split(text)
    IN  IF Len(words) > 1
        THEN Join(<<" ">>,
                  [i \in 1..Len(words) |->
                      IF spellchecker_correction(words[i], sp) # <<>>
                      THEN spellchecker_correction(words[i], sp)
                      ELSE words[i]])
        ELSE text

(***************************************************************************)
(* dict.py: correct_spelling, the fuzzy corrector.  get_close_matches is a *)
(* black box: a table gives, for a combined word, the close matches of the *)
(* word set, best first.  A score is a fraction num/den, so that           *)
(* len(match) / len(combined_word) + 0.2 is exact.  A step of the outer    *)
(* loop records, besides what it appends, the position i, the size of the  *)
(* window that produced best_match (0 for none), the number of input words *)
(* of that window, and the increment of i.                                 *)
(***************************************************************************)
get_close_matches(word, table) == IF word \in DOMAIN table THEN table[word] ELSE <<>>

ScoreGreater(a, b) == a.num * b.den > b.num * a.den

\* words[i:i+j]
dict_Window(words, i, j) ==
    SubSeq(words, i, IF i + j - 1 <= Len(words) THEN i + j - 1 ELSE Len(words))

\* match.count(' ')
CountSpaces(match) == Cardinality({k \in 1..Len(match) : match[k] = " "})

\* the loop over the matches of one window
RECURSIVE dict_ScanMatches(_, _, _, _, _)
dict_ScanMatches(matches, k, combined_word, j, best) ==
    IF k > Len(matches) THEN best
    ELSE LET match == matches[k]
             match_score ==
                 IF " " \in ToSet(match)
                 THEN [num |-> 5 * Len(match) + Len(combined_word),
                       den |-> 5 * Len(combined_word)]
                 ELSE [num |-> Len(match), den |-> Len(combined_word)]
         IN  IF match = combined_word
             THEN [best_match |-> match, best_match_score |-> [num |-> 1, den |-> 1],
                   window |-> j]
             ELSE IF ScoreGreater(match_score, best.best_match_score)
             THEN dict_ScanMatches(matches, k + 1, combined_word, j,
                                   [best_match |-> match, best_match_score |-> match_score,
                                    window |-> j])
             ELSE dict_ScanMatches(matches, k + 1, combined_word, j, best)

\* for j in range(2, 0, -1)
dict_ScanWindow(words, i, j, table, best) ==
    LET combined_word == Lower(Join(<<" ">>, dict_Window(words, i, j)))
    IN  dict_ScanMatches(get_close_matches(combined_word, table), 1, combined_word, j, best)

\* one iteration of the while loop
dict_Step(words, i, table) ==
    LET none == [best_match |-> <<>>, best_match_score |-> [num |-> 0, den |-> 1],
                 window |-> 0]
        best == dict_ScanWindow(words, i, 1, table, dict_ScanWindow(words, i, 2, table, none))
    IN  IF best.best_match # <<>>
        THEN [i |-> i, window |-> best.window,
              taken |-> Len(dict_Window(words, i, best.window)),
              skip |-> CountSpaces(best.best_match) + 1,
              appended |-> best.best_match]
        ELSE [i |-> i, window |-> 0, taken |-> 1, skip |-> 1, appended |-> words[i]]

RECURSIVE dict_Loop(_, _, _, _)
dict_Loop(words, i, table, steps) ==
    IF i > Len(words) THEN steps
    ELSE LET step == dict_Step(words, i, table)
         IN  dict_Loop(words, i + step.skip, table, Append(steps, step))

dict_correct_spelling(text, table) ==
    LET steps == dict_Loop(Split(text), 1, table, <<>>)
    IN  [text |-> Join(<<" ">>, [k \in 1..Len(steps) |-> steps[k].appended]),
         steps |-> steps]

(***************************************************************************)
(* chatbot/response_generation.py: match_columns                           *)
(***************************************************************************)
intent_words == <<
    [column |-> "What",
     keywords |-> <<
         <<"W","h","a","t">>, <<"D","e","f","i","n","e">>, <<"I","d","e","n","t","i","f","y">>, <<"D","e","s","c","r","i","b","e">>,
         <<"C","l","a","r","i","f","y">>, <<"S","p","e","c","i","f","y">>, <<"D","e","t","a","i","l">>, <<"O","u","t","l","i","n","e">>,
         <<"S","t","a","t","e">>, <<"E","x","p","l","a","i","n">>, <<"D","e","t","e","r","m","i","n","e">>, <<"D","e","p","i","c","t">>,
         <<"S","u","m","m","a","r","i","z","e">>, <<"D","e","s","i","g","n","a","t","e">>, <<"D","i","s","t","i","n","g","u","i","s","h">> >>],
    [column |-> "Symptoms",
     keywords |-> <<
         <<"S","y","m","p","t","o","m","s">>, <<"S","i","g","n","s">>, <<"I","n","d","i","c","a","t","i","o","n","s">>,
         <<"M","a","n","i","f","e","s","t","a","t","i","o","n","s">>, <<"W","a","r","n","i","n","g">>, <<"C","l","u","e","s">>,
         <<"E","v","i","d","e","n","c","e">>, <<"R","e","d","f","l","a","g","s">>, <<"M","a","r","k","e","r","s">>,
         <<"P","r","e","s","e","n","t","a","t","i","o","n","s">>, <<"O","u","t","c","o","m","e","s">>, <<"P","a","t","t","e","r","n","s">>,
         <<"P","h","e","n","o","m","e","n","a">>, <<"T","r","a","i","t","s">>, <<"O","c","c","u","r","r","e","n","c","e","s">> >>],
    [column |-> "Why",
     keywords |-> <<
         <<"W","h","y">>, <<"C","a","u","s","e","s">>, <<"R","e","a","s","o","n">>, <<"P","u","r","p","o","s","e">>,
         <<"E","x","p","l","a","i","n">>, <<"J","u","s","t","i","f","i","c","a","t","i","o","n">>, <<"O","r","i","g","i","n">>, <<"M","o","t","i","v","e">>,
         <<"T","r","i","g","g","e","r">>, <<"R","a","t","i","o","n","a","l","e">>, <<"G","r","o","u","n","d","s">>, <<"B","a","s","i","s">>,
         <<"E","x","c","u","s","e">>, <<"S","o","u","r","c","e">>, <<"F","a","c","t","o","r">> >>],
    [column |-> "How",
     keywords |-> <<
         <<"H","o","w">>, <<"M","e","t","h","o","d">>, <<"M","e","a","n","s">>, <<"P","r","o","c","e","d","u","r","e">>,
         <<"S","t","e","p","s">>, <<"T","e","c","h","n","i","q","u","e">>, <<"P","r","o","c","e","s","s">>, <<"W","a","y">>,
         <<"A","p","p","r","o","a","c","h">>, <<"S","t","r","a","t","e","g","y">>, <<"S","y","s","t","e","m">>, <<"M","a","n","n","e","r">>,
         <<"F","r","a","m","e","w","o","r","k">>, <<"F","o","r","m">>, <<"M","o","d","e">>, <<"P","r","e","v","e","n","t","i","o","n">>,
         <<"A","v","o","i","d","a","n","c","e">>, <<"S","a","f","e","g","u","a","r","d">>, <<"P","r","o","t","e","c","t","i","o","n">>,
         <<"M","i","t","i","g","a","t","i","o","n">>, <<"R","e","d","u","c","t","i","o","n">>, <<"I","n","t","e","r","v","e","n","t","i","o","n">>,
         <<"D","e","f","e","n","s","e">>, <<"D","e","t","e","r","r","e","n","c","e">>, <<"S","h","i","e","l","d","i","n","g">>, <<"D","o">> >>] >>

\* the column names behind column_embeddings
column_names == <<"What", "Symptoms", "Why", "How">>

\* dict.get(name, ""): a missing key and an empty cell are both falsy
Get(rec, name) == IF name \in DOMAIN rec THEN rec[name] ELSE ""

\* keyword.lower() of every keyword of the table
keywords_lower == [t \in 1..Len(intent_words) |->
                      [k \in 1..Len(intent_words[t].keywords) |->
                          Lower(intent_words[t].keywords[k])]]

\* the inner loop: the position of the first keyword of intent t, in list
\* order from k, that occurs in the query; -1 if none does
RECURSIVE KeywordPosition(_, _, _)
KeywordPosition(query_lower, t, k) ==
    IF k > Len(intent_words[t].keywords) THEN -1
    ELSE LET keyword_lower == keywords_lower[t][k]
             position == Find(query_lower, keyword_lower)
         IN  IF position # -1 THEN position
             ELSE KeywordPosition(query_lower, t, k + 1)

\* the outer loop over the intents t..: the (position, response) pairs
\* appended, each with the column it came from
RECURSIVE CollectMatches(_, _, _)
CollectMatches(query_lower, rec, t) ==
    IF t > Len(intent_words) THEN <<>>
    ELSE LET column == intent_words[t].column
             position == IF Get(rec, column) # ""
                         THEN KeywordPosition(query_lower, t, 1)
                         ELSE -1
         IN  (IF position # -1
              THEN <<[position |-> position, response |-> rec[column], column |-> column]>>
              ELSE <<>>)
                \o CollectMatches(query_lower, rec, t + 1)

\* faulty variant: the default is the first intent whose column is non-empty
DefaultMatch_first_nonempty(rec, matching_columns) ==
    LET nonempty == SelectSeq(column_names, LAMBDA c : Get(rec, c) # "")
    IN  IF matching_columns = <<>> /\ nonempty # <<>>
        THEN [matching_columns |->
                <<[position |-> 0, response |-> rec[nonempty[1]], column |-> nonempty[1]]>>,
              best_match_response_flag |-> 1]
        ELSE [matching_columns |-> matching_columns, best_match_response_flag |-> 0]

\* faulty variant: a result that holds the What column is always flagged
DefaultMatch_flag_with_What(rec, matching_columns) ==
    LET first_column == intent_words[1].column
    IN  IF matching_columns = <<>> /\ Get(rec, first_column) # ""
        THEN [matching_columns |->
                <<[position |-> 0, response |-> rec[first_column], column |-> first_column]>>,
              best_match_response_flag |-> 1]
        ELSE [matching_columns |-> matching_columns,
              best_match_response_flag |->
                 IF \E j \in 1..Len(matching_columns) :
                       matching_columns[j].column = first_column
                 THEN 1 ELSE 0]

\* "if no match was found, add the response from the first column"
DefaultMatch(rec, matching_columns) ==
    LET match_found == matching_columns # <<>>
        first_column == intent_words[1].column
    IN  IF ~match_found /\ intent_words # <<>> /\ Get(rec, first_column) # ""
        THEN [matching_columns |->
                <<[position |-> 0, response |-> rec[first_column], column |-> first_column]>>,
              best_match_response_flag |-> 1]
        ELSE [matching_columns |-> matching_columns, best_match_response_flag |-> 0]

\* faulty variant: the pairs stay in table order
SortByPosition_table_order(pairs) == pairs

\* list.sort(key=position): stable, ascending
RECURSIVE SortByPosition(_)
SortByPosition(pairs) ==
    IF pairs = <<>> THEN <<>>
    ELSE LET x == pairs[Len(pairs)]
             sorted == SortByPosition(SubSeq(pairs, 1, Len(pairs) - 1))
             k == Cardinality({j \in 1..Len(sorted) : sorted[j].position <= x.position})
         IN  SubSeq(sorted, 1, k) \o <<x>> \o SubSeq(sorted, k + 1, Len(sorted))

\* faulty variant: the routed column is taken out of the record
best_match_response_without_What(best_match_response) ==
    [best_match_response EXCEPT !.What = ""]

\* the record match_columns was handed, after the call: the function reads
\* it with .get(...) and [column] and never assigns to it
best_match_response_after(best_match_response) == best_match_response

\* the rows of the knowledge base after match_columns has been called on the
\* records `records` (their indexes): the records are the rows themselves
RoutedRows(rows, records) ==
    [i \in 1..Len(rows) |->
        IF i \in ToSet(records) THEN best_match_response_after(rows[i]) ELSE rows[i]]

match_columns(q, rec, sp, best_column_name) ==
    LET query_lower == correct_spelling(Lower(q), sp)
        found == CollectMatches(query_lower, rec, 1)
        withDefault == DefaultMatch(rec, found)
        matching_columns == SortByPosition(withDefault.matching_columns)
        responses == [j \in 1..Len(matching_columns) |-> matching_columns[j].response]
    IN  IF responses # <<>>
        THEN [text |-> JoinStr(" ", responses),
              flag |-> withDefault.best_match_response_flag,
              query_lower |-> query_lower,
              match_found |-> found # <<>>,
              matching_columns |-> matching_columns,
              best_column_name |-> ""]
        ELSE [text |-> Get(rec, best_column_name),
              flag |-> withDefault.best_match_response_flag,
              query_lower |-> query_lower,
              match_found |-> found # <<>>,
              matching_columns |-> matching_columns,
              best_column_name |-> best_column_name]

(***************************************************************************)
(* chatbot/response_generation.py: is_domain_relevant, get_response        *)
(***************************************************************************)
DefaultThreshold == 90          \* get_response(user_input, threshold=0.3)
DomainThreshold == 120          \* is_domain_relevant(query, threshold=0.4)

RecordSeparator == " \n\n "
Disclaimer == "\n For personalized advice or concerns about your health, Please consult our healthcare professional. We can provide you with the best guidance based on your specific needs."
PlaceholderResponse == "This is a placeholder response generated for your question."
FallbackResponse == "I'm sorry, I can only answer questions related to women's heart health. Can you please clarify your question?"

\* faulty variant: the gate uses the matcher's threshold
is_domain_relevant_at_default(rel, thr) == \E k \in 1..Len(rel) : rel[k] >= DefaultThreshold

\* faulty variant: a score equal to the threshold does not count
is_domain_relevant_above(rel, thr) == \E k \in 1..Len(rel) : rel[k] > thr

\* any(score >= threshold for score in relevance_scores)
is_domain_relevant(rel, thr) == \E k \in 1..Len(rel) : rel[k] >= thr

generate_response_with_placeholder == PlaceholderResponse

\* the loop of the direct match: match_columns on every returned record
RECURSIVE RouteEach(_, _, _, _)
RouteEach(user_input, context_responses, sp, bc) ==
    IF context_responses = <<>> THEN <<>>
    ELSE <<match_columns(user_input, database[context_responses[1]], sp, bc)>>
            \o RouteEach(user_input, Tail(context_responses), sp, bc)

\* faulty variant: the disclaimer is never appended
DirectResponse_without_disclaimer(routed) ==
    JoinStr(RecordSeparator,
            SelectSeq([k \in 1..Len(routed) |-> routed[k].text], LAMBDA t : t # ""))

\* faulty variant: an empty routed text is joined like any other
DirectResponse_keeps_empty(routed) ==
    LET final_response == JoinStr(RecordSeparator,
                                  [k \in 1..Len(routed) |-> routed[k].text])
    IN  IF routed[Len(routed)].flag = 1
        THEN final_response \o Disclaimer
        ELSE final_response

\* the body of `if context_responses:` of the direct match; routed is what
\* match_columns returned for each record
DirectResponse(routed) ==
    LET column_responses == [k \in 1..Len(routed) |-> routed[k].text]
        combined_responses == SelectSeq(column_responses, LAMBDA t : t # "")
        final_response == JoinStr(RecordSeparator, combined_responses)
        \* the flag left by the last iteration of the loop
        best_match_response_flag == routed[Len(routed)].flag
    IN  IF best_match_response_flag = 1
        THEN final_response \o Disclaimer
        ELSE final_response

\* n times the name f
Repeat(f, n) == [k \in 1..n |-> f]

\* faulty variant: the corrected text is never matched again
get_response_without_retry(user_input, thr, rows, rows2, sp, bc, rel) ==
    LET context_responses == find_best_context(user_input, thr, rows)
        corrected_input == correct_spelling(user_input, sp)
        routed == RouteEach(user_input, context_responses.records, sp, bc)
    IN  IF ~context_responses.none /\ context_responses.records # <<>>
        THEN [response |-> DirectResponse(routed),
              raised |-> "", path |-> "direct", corrected_input |-> <<>>,
              records |-> context_responses.records,
              routed |-> routed,
              calls |-> <<"find_best_context">>
                            \o Repeat("match_columns", Len(context_responses.records))]
        ELSE IF is_domain_relevant(rel, DomainThreshold)
        THEN [response |-> generate_response_with_placeholder, raised |-> "",
              path |-> "generative", corrected_input |-> corrected_input,
              records |-> <<>>, routed |-> <<>>,
              calls |-> <<"find_best_context", "correct_spelling",
                          "is_domain_relevant", "generate_response_with_placeholder">>]
        ELSE [response |-> FallbackResponse, raised |-> "", path |-> "refusal",
              corrected_input |-> corrected_input,
              records |-> <<>>, routed |-> <<>>,
              calls |-> <<"find_best_context", "correct_spelling",
                          "is_domain_relevant">>]

\* rows: the scores of user_input; rows2: those of the corrected text.
\* Besides the response, the outcome records the functions get_response has
\* called, in order, and what match_columns returned for each record.
get_response(user_input, thr, rows, rows2, sp, bc, rel) ==
    LET context_responses == find_best_context(user_input, thr, rows)
        corrected_input == correct_spelling(user_input, sp)
        context_response == find_best_context(corrected_input, thr, rows2)
        retried == IF corrected_input # user_input THEN <<"find_best_context">> ELSE <<>>
        routed == RouteEach(user_input, context_responses.records, sp, bc)
    IN  IF ~context_responses.none /\ context_responses.records # <<>>
        THEN [response |-> DirectResponse(routed),
              raised |-> "", path |-> "direct", corrected_input |-> <<>>,
              records |-> context_responses.records,
              routed |-> routed,
              calls |-> <<"find_best_context">>
                            \o Repeat("match_columns", Len(context_responses.records))]
        ELSE IF /\ corrected_input # user_input
                /\ ~context_response.none
                /\ context_response.records # <<>>
        \* match_columns is handed the list itself: its first
        \* best_match_response.get(...) raises
        THEN [response |-> "", raised |-> "AttributeError", path |-> "retry",
              corrected_input |-> corrected_input,
              records |-> context_response.records, routed |-> <<>>,
              calls |-> <<"find_best_context", "correct_spelling", "find_best_context",
                          "match_columns">>]
        ELSE IF is_domain_relevant(rel, DomainThreshold)
        THEN [response |-> generate_response_with_placeholder, raised |-> "",
              path |-> "generative", corrected_input |-> corrected_input,
              records |-> <<>>, routed |-> <<>>,
              calls |-> <<"find_best_context", "correct_spelling">> \o retried
                            \o <<"is_domain_relevant",
                                 "generate_response_with_placeholder">>]
        ELSE [response |-> FallbackResponse, raised |-> "", path |-> "refusal",
              corrected_input |-> corrected_input,
              records |-> <<>>, routed |-> <<>>,
              calls |-> <<"find_best_context", "correct_spelling">> \o retried
                            \o <<"is_domain_relevant">>]

(***************************************************************************)
(* Different Concept Implementations/July18/app3Japanese.py: the stateful  *)
(* variant.  `session` is the stored session (Flask keeps it in the signed *)
(* session cookie): every request works on the copy it opened and stores   *)
(* it back when it returns.  The Japanese greetings and replies are        *)
(* written in transliteration.  A history entry carries, besides its two   *)
(* keys, the number of the turn that appended it.                          *)
(***************************************************************************)
HistoryLimit == 10      \* "Limit context history to 10 exchanges"

greetings == {<<"k","o","n","n","i","c","h","i","w","a">>, <<"k","o","n","b","a","n","w","a">>, <<"o","h","a","y","o","u">>}
GreetingReply == "konnichiwa! shinzou no kenkou ni tsuite donna shitsumon ga arimasu ka?"
StatefulFallbackResponse == "moushiwake arimasen ga, sono shitsumon ni wa okotae dekimasen."

None == <<"None">>

NewContextHistory == [context |-> <<>>, history |-> <<>>]
NoSession == [has_context_history |-> FALSE, context_history |-> NewContextHistory]

\* faulty variant: a greeting is never recognized
IsGreeting_never(user_input) == FALSE

\* any(user_input == greeting for greeting in greetings)
IsGreeting(user_input) == user_input \in greetings

\* faulty variant: the oldest entries are kept
LastEntries_keeps_oldest(history, n) ==
    IF Len(history) > n THEN SubSeq(history, 1, n) ELSE history

\* context_history['history'][-10:]
LastEntries(history, n) ==
    IF Len(history) > n THEN SubSeq(history, Len(history) - n + 1, Len(history))
    ELSE history

\* faulty variant: the message of the exception is returned as the answer
generate_response_with_gemini_unformatted(outcome) ==
    IF outcome.kind = "no_text"
    THEN "I'm sorry, but I couldn't generate a response. Please try rephrasing your question."
    ELSE outcome.text

\* generate_response_with_gemini(prompt): outcome is what the call of the
\* generative model does: it answers with a text, answers without one, or
\* raises an exception with a message
generate_response_with_gemini(outcome) ==
    IF outcome.kind = "raises" THEN "Error: " \o outcome.text
    ELSE IF outcome.kind = "text" THEN outcome.text
    ELSE "I'm sorry, but I couldn't generate a response. Please try rephrasing your question."

\* get_response(user_input, context_history): context_response is what
\* find_best_context returns ("" for None), outcome what the call of the
\* generative model does.  Besides the two returned values, the result
\* records the functions called, in order.
stateful_get_response(user_input_arg, context_history, context_response, outcome, turn) ==
    LET user_input == Lower(user_input_arg)
    IN  IF IsGreeting(user_input)
        THEN [response |-> GreetingReply, context_history |-> context_history,
              calls |-> <<>>]
        ELSE IF context_response # ""
        THEN LET context == Append(context_history.context, [info |-> context_response])
                 appended == Append(context_history.history,
                                    [user_input |-> user_input, bot_response |-> "",
                                     turn |-> turn])
                 response == generate_response_with_gemini(outcome)
                 filled == [appended EXCEPT ![Len(appended)].bot_response = response]
                 history == IF Len(filled) > HistoryLimit
                            THEN LastEntries(filled, HistoryLimit)
                            ELSE filled
             IN  [response |-> response,
                  context_history |-> [context |-> context, history |-> history],
                  calls |-> <<"find_best_context", "get_relevant_context",
                              "generate_response_with_gemini">>]
        ELSE [response |-> StatefulFallbackResponse,
              context_history |->
                  [context_history EXCEPT
                      !.history = Append(@, [user_input |-> user_input,
                                             bot_response |-> StatefulFallbackResponse,
                                             turn |-> turn])],
              calls |-> <<"find_best_context">>]

\* chatbot(), up to the read of the session: the request's copy of the
\* session, with the context_history key created if it was missing
chatbot_open(is_json, sess) ==
    IF is_json /\ ~sess.has_context_history
    THEN [session |-> [has_context_history |-> TRUE,
                       context_history |-> NewContextHistory],
          modified |-> TRUE]
    ELSE [session |-> sess, modified |-> FALSE]

\* chatbot(), from the check of user_input on: the reply, the request's copy
\* of the session and whether the request has assigned to it
chatbot_respond(is_json, user_input, own, context_response, outcome, turn) ==
    IF ~is_json
    THEN [status |-> 400, response |-> "Invalid input",
          session |-> own.session, modified |-> own.modified, calls |-> <<>>]
    ELSE IF user_input = None
    THEN [status |-> 400, response |-> "Missing 'user_input' parameter",
          session |-> own.session, modified |-> own.modified, calls |-> <<>>]
    ELSE LET r == stateful_get_response(user_input, own.session.context_history,
                                        context_response, outcome, turn)
         IN  [status |-> 200, response |-> r.response,
              session |-> [own.session EXCEPT !.context_history = r.context_history],
              modified |-> TRUE, calls |-> <<"get_response">> \o r.calls]

\* the session stored when the request returns: the request's copy if the
\* request has assigned to it
save_session(stored, reply) == IF reply.modified THEN reply.session ELSE stored

\* faulty variant: the session is left as it is
clear_context_history_keeps(sess) == sess

\* clear_context_history(): session.pop('context_history', None)
clear_context_history(sess) == NoSession

\* get_context_history(): session.get('context_history', {"context": [], "history": []})
get_context_history(sess) ==
    IF sess.has_context_history THEN sess.context_history ELSE NewContextHistory

\* the whole handler, run without interruption
chatbot(is_json, user_input, sess, context_response, outcome, turn) ==
    chatbot_respond(is_json, user_input, chatbot_open(is_json, sess),
                    context_response, outcome, turn)

(***************************************************************************)
(* Inputs                                                                  *)
(***************************************************************************)
MatchQueries == {
    <<"w","h","a","t"," ","i","s"," ","c","a","r","d","i","a","c">>,
    <<"W","h","a","t"," ","i","s"," ","A","N","G","I","N","A"," ","a","n","d"," ","c","h","o","l","e","s","t","e","r","o","l">>,
    <<"w","h","a","t"," ","i","s"," ","a","n","g","i","n","a","?">>,
    <<" ","m","y","o","c","a","r","d","i","a","l"," "," ","a","n","g","i","n","a">> }

NoResult == [branch |-> "unset", none |-> TRUE, records |-> <<>>,
             matches |-> <<>>, locals |-> ScanInit]
NoResponse == [response |-> "", raised |-> "", path |-> "unset", corrected_input |-> <<>>,
               records |-> <<>>, routed |-> <<>>, calls |-> <<>>]
NoRecord == [What |-> "", Symptoms |-> "", Why |-> "", How |-> ""]
NoRoute == [text |-> "", flag |-> 0, query_lower |-> <<>>, match_found |-> FALSE,
            matching_columns |-> <<>>, best_column_name |-> ""]

NoCorrection == [text |-> <<>>, steps |-> <<>>]

NumRequests == 2

NoOutcome == [kind |-> "none", text |-> ""]

IdleRequest == [pc |-> "idle", route |-> "", is_json |-> TRUE, user_input |-> None,
                context_response |-> "", outcome |-> NoOutcome, turn |-> 0,
                session |-> NoSession, modified |-> FALSE,
                status |-> 0, response |-> "", calls |-> <<>>,
                seen |-> NewContextHistory]
NoRequests == [r \in 1..NumRequests |-> IdleRequest]

InitMatch ==
    /\ pc = "start"
    /\ df = KnowledgeBase
    /\ session = NoSession
    /\ requests = NoRequests
    /\ turns = 0
    /\ query \in MatchQueries
    /\ threshold \in Thresholds
    /\ scores \in [1..NumRecords -> ScoreRows]
    /\ fbc = NoResult
    /\ record = NoRecord
    /\ spell = <<>>
    /\ best_column = ""
    /\ retry_scores = <<>>
    /\ relevance_scores = <<>>
    /\ mc = NoRoute
    /\ gr = NoResponse
    /\ idr = FALSE
    /\ close = <<>>
    /\ dcs = NoCorrection

FindBestContext ==
    /\ pc = "start"
    /\ pc' = "find_best_context"
    /\ fbc' = find_best_context(query, threshold, scores)
    /\ UNCHANGED <<inputs, idr, dcs, mc, gr, conversation>>

AnalyseFindBestContext ==
    /\ pc = "start"
    /\ pc' = "analyse_find_best_context"
    /\ fbc' = analyse_find_best_context(query, threshold, scores)
    /\ UNCHANGED <<inputs, idr, dcs, mc, gr, conversation>>

MaxFindBestContext ==
    /\ pc = "start"
    /\ pc' = "max_find_best_context"
    /\ fbc' = max_find_best_context(query, threshold, scores)
    /\ UNCHANGED <<inputs, idr, dcs, mc, gr, conversation>>

NextMaxMatch == MaxFindBestContext

SpecMaxMatch == InitMatch /\ [][NextMaxMatch]_vars

NextMatch == FindBestContext \/ AnalyseFindBestContext

SpecMatch == InitMatch /\ [][NextMatch]_vars

MaxWords == 2

RouteVocabulary == {<<"w","h","a","t">>, <<"W","h","y">>, <<"h","o","w">>, <<"d","e","s","c","r","i","b","e">>, <<"e","x","p","l","a","i","n">>, <<"w","a","t">>, <<"a","n","g","i","n","a">>}

\* the texts of 1..n words of the vocabulary, separated by single spaces
RECURSIVE Phrases(_)
Phrases(n) ==
    IF n = 1 THEN RouteVocabulary
    ELSE Phrases(n - 1)
            \cup {p \o <<" ">> \o w : p \in Phrases(n - 1), w \in RouteVocabulary}

RouteQueries == Phrases(MaxWords)
                    \cup {<<"w","h","y"," ","d","o","e","s"," ","X"," ","h","a","p","p","e","n"," ","a","n","d"," ","w","h","a","t"," ","i","s"," ","X">>,
                          <<" ","D","e","s","c","r","i","b","e"," "," ","s","y","m","p","t","o","m","s">>,
                          <<"h","o","w"," ","a","n","g","i","n","a"," ","w","h","a","t"," ","W","h","y">>}

\* every combination of filled and empty intent columns
RouteRecords == [What : {"", "What-answer."}, Symptoms : {"", "Symptoms-answer."},
                 Why : {"", "Why-answer."}, How : {"", "How-answer."}]

\* what the spell checker may make of the unknown word "wat"; it corrects
\* the misspelled trigger word "angna"
SpellCheckers == {<<"w","a","t">> :> <<"w","h","a","t">> @@ <<"a","n","g","n","a">> :> <<"a","n","g","i","n","a">>,
                  <<"w","a","t">> :> <<"w","a","s">> @@ <<"a","n","g","n","a">> :> <<"a","n","g","i","n","a">>,
                  <<"w","a","t">> :> <<>> @@ <<"a","n","g","n","a">> :> <<"a","n","g","i","n","a">>}

InitRoute ==
    /\ pc = "start"
    /\ df = KnowledgeBase
    /\ session = NoSession
    /\ requests = NoRequests
    /\ turns = 0
    /\ query \in RouteQueries
    /\ threshold = 0
    /\ scores = <<>>
    /\ fbc = NoResult
    /\ record \in RouteRecords
    /\ spell \in SpellCheckers
    /\ best_column \in ToSet(column_names)
    /\ retry_scores = <<>>
    /\ relevance_scores = <<>>
    /\ mc = NoRoute
    /\ gr = NoResponse
    /\ idr = FALSE
    /\ close = <<>>
    /\ dcs = NoCorrection

MatchColumns ==
    /\ pc = "start"
    /\ pc' = "match_columns"
    /\ mc' = match_columns(query, record, spell, best_column)
    /\ record' = best_match_response_after(record)
    /\ df' = [i \in 1..Len(df) |-> IF df[i] = record THEN record' ELSE df[i]]
    /\ UNCHANGED <<query, threshold, scores, spell, best_column, retry_scores,
                   relevance_scores, close, idr, dcs, fbc, gr, conversation>>

NextRoute == MatchColumns

SpecRoute == InitRoute /\ [][NextRoute]_vars

(***************************************************************************)
(* The domain gate on its own: the similarities of one query to the five   *)
(* domain keywords are fixed, and the gate is asked at one threshold.      *)
(***************************************************************************)
domain_keywords == <<<<"h","e","a","r","t">>, <<"c","a","r","d","i","a","c">>, <<"w","o","m","e","n">>, <<"h","e","a","l","t","h">>, <<"c","a","r","d","i","o","l","o","g","y">>>>

NumDomainKeywords == Len(domain_keywords)

\* similarities below, at and above the default threshold of the gate
GateScores == {90, 120, 150}
GateThresholds == {90, 119, 120, 121, 150, 151}

InitGate ==
    /\ pc = "start"
    /\ df = KnowledgeBase
    /\ session = NoSession
    /\ requests = NoRequests
    /\ turns = 0
    /\ query = <<>>
    /\ threshold \in GateThresholds
    /\ scores = <<>>
    /\ fbc = NoResult
    /\ record = NoRecord
    /\ spell = <<>>
    /\ best_column = ""
    /\ retry_scores = <<>>
    /\ relevance_scores \in [1..NumDomainKeywords -> GateScores]
    /\ mc = NoRoute
    /\ gr = NoResponse
    /\ idr = FALSE
    /\ close = <<>>
    /\ dcs = NoCorrection

IsDomainRelevant ==
    /\ pc = "start"
    /\ pc' = "is_domain_relevant"
    /\ idr' = is_domain_relevant(relevance_scores, threshold)
    /\ UNCHANGED <<inputs, dcs, fbc, mc, gr, conversation>>

NextGate == IsDomainRelevant

SpecGate == InitGate /\ [][NextGate]_vars

(***************************************************************************)
(* The fuzzy corrector on texts of up to MaxFuzzyWords words.              *)
(***************************************************************************)
MaxFuzzyWords == 3

FuzzyWords == {<<"i","a","m">>, <<"f","i","n","e">>, <<"i">>, <<"t","h","n","k">>, <<"s","o">>, <<"i","t","h","i","n","k">>}

FuzzyTexts ==
    {Join(<<" ">>, ws) : ws \in UNION {[1..n -> FuzzyWords] : n \in 1..MaxFuzzyWords}}

\* get_close_matches(combined_word, word_set, n=3, cutoff=0.83) on the words
\* of common_english_words, for the combinations of one and two FuzzyWords
\* that have a close match
CloseMatches ==
    <<"i","a","m">> :> <<<<"i"," ","a","m">>>> @@
    <<"i">> :> <<<<"i">>>> @@
    <<"t","h","n","k">> :> <<<<"t","h","i","n","k">>>> @@
    <<"s","o">> :> <<<<"s","o">>>> @@
    <<"i","t","h","i","n","k">> :> <<<<"i"," ","t","h","i","n","k">>, <<"t","h","i","n","k">>, <<"w","i","t","h","i","n">>>> @@
    <<"i"," ","i","a","m">> :> <<<<"i"," ","a","m">>>> @@
    <<"i"," ","t","h","n","k">> :> <<<<"i"," ","t","h","i","n","k">>>> @@
    <<"i"," ","i","t","h","i","n","k">> :> <<<<"i"," ","t","h","i","n","k">>>>

\* a word set that holds nothing close to the text
NoCloseMatches == <<>>

InitFuzzy ==
    /\ pc = "start"
    /\ df = KnowledgeBase
    /\ session = NoSession
    /\ requests = NoRequests
    /\ turns = 0
    /\ query \in FuzzyTexts
    /\ threshold = 0
    /\ scores = <<>>
    /\ fbc = NoResult
    /\ record = NoRecord
    /\ spell = <<>>
    /\ best_column = ""
    /\ retry_scores = <<>>
    /\ relevance_scores = <<>>
    /\ mc = NoRoute
    /\ gr = NoResponse
    /\ idr = FALSE
    /\ close \in {CloseMatches, NoCloseMatches}
    /\ dcs = NoCorrection

DictCorrectSpelling ==
    /\ pc = "start"
    /\ pc' = "dict_correct_spelling"
    /\ dcs' = dict_correct_spelling(query, close)
    /\ UNCHANGED <<inputs, idr, fbc, mc, gr, conversation>>

NextFuzzy == DictCorrectSpelling

SpecFuzzy == InitFuzzy /\ [][NextFuzzy]_vars

\* requests of the end-to-end test, a misspelled trigger word, and two
\* requests that name both topics of the knowledge base
RespondQueries == {
    <<"w","h","a","t"," ","i","s"," ","c","a","r","d","i","a","c">>,
    <<"w","h","a","t"," ","i","s"," ","c","h","o","l","e","s","t","e","r","o","l"," ","a","n","d"," ","h","o","w"," ","i","s"," ","a","n","g","i","n","a"," ","c","a","u","s","e","d">>,
    <<"a","n","g","i","n","a">>,
    <<"w","a","t"," ","i","s"," ","a","n","g","i","n","a">>,
    <<"w","h","a","t"," ","i","s"," ","f","o","o","t","b","a","l","l">>,
    <<"w","h","a","t"," ","i","s"," ","a","n","g","i","n","a","?">>,
    <<"h","o","w">>,
    <<"w","h","a","t"," ","i","s"," ","a","n","g","n","a">>,
    <<"w","h","y"," ","a","n","g","i","n","a"," ","a","n","d"," ","c","h","o","l","e","s","t","e","r","o","l">>,
    <<"a","n","g","i","n","a"," ","c","h","o","l","e","s","t","e","r","o","l">>,
    <<"w","a","t"," ","i","s"," ","c","a","r","d","i","a","c">> }

\* a strong row by its trigger, a strong row by a keyword, a row whose
\* average is 0.4, and a row that matches nothing
RespondScoreRows == {
    [trigger_score |-> 270, synonym_scores |-> <<>>, keyword_scores |-> <<>>],
    [trigger_score |-> -90, synonym_scores |-> <<>>, keyword_scores |-> <<195>>],
    [trigger_score |-> 180, synonym_scores |-> <<90>>, keyword_scores |-> <<90, -90>>],
    [trigger_score |-> -90, synonym_scores |-> <<>>, keyword_scores |-> <<>>] }

\* the corrected text matches every record strongly, or none
RetryScores == {
    [i \in 1..NumRecords |->
        [trigger_score |-> 270, synonym_scores |-> <<>>, keyword_scores |-> <<>>]],
    [i \in 1..NumRecords |->
        [trigger_score |-> -90, synonym_scores |-> <<>>, keyword_scores |-> <<>>]] }

\* similarities to the five domain keywords: none, or one, reaches 0.4
RelevanceScores == {<<30, 60, 90, 0, -30>>, <<30, 120, 90, 0, -30>>}

InitRespond ==
    /\ pc = "start"
    /\ df = KnowledgeBase
    /\ session = NoSession
    /\ requests = NoRequests
    /\ turns = 0
    /\ query \in RespondQueries
    /\ threshold = DefaultThreshold
    /\ scores \in [1..NumRecords -> RespondScoreRows]
    /\ record = NoRecord
    /\ spell \in SpellCheckers
    /\ best_column \in ToSet(column_names)
    /\ retry_scores \in RetryScores
    /\ relevance_scores \in RelevanceScores
    /\ fbc = NoResult
    /\ mc = NoRoute
    /\ gr = NoResponse
    /\ idr = FALSE
    /\ close = <<>>
    /\ dcs = NoCorrection

GetResponse ==
    /\ pc = "start"
    /\ pc' = "get_response"
    /\ gr' = get_response(query, threshold, scores, retry_scores, spell, best_column,
                          relevance_scores)
    /\ df' = RoutedRows(df, IF gr'.path = "direct" THEN gr'.records ELSE <<>>)
    /\ UNCHANGED <<query, threshold, scores, record, spell, best_column, retry_scores,
                   relevance_scores, close, idr, dcs, fbc, mc, conversation>>

NextRespond == FindBestContext \/ GetResponse

SpecRespond == InitRespond /\ [][NextRespond]_vars

(***************************************************************************)
(* Serving: the functions are called on one request after another.  Every  *)
(* request brings its own text, hence its own similarities; the knowledge  *)
(* base is the one loaded at startup.                                      *)
(***************************************************************************)
MaxServed == 2

\* a trigger word, a misspelled one alone and in a sentence, and a request
\* outside the domain
ServeQueries == {<<"a","n","g","i","n","a">>, <<"a","n","g","n","a">>, <<"w","h","a","t"," ","i","s"," ","a","n","g","n","a">>, <<"w","h","a","t"," ","i","s"," ","f","o","o","t","b","a","l","l">>}

ServeScoreRows == {
    [trigger_score |-> 270, synonym_scores |-> <<>>, keyword_scores |-> <<>>],
    [trigger_score |-> -90, synonym_scores |-> <<>>, keyword_scores |-> <<>>] }

ServeSpellChecker == <<"a","n","g","n","a">> :> <<"a","n","g","i","n","a">>

InitServe ==
    /\ pc = "start"
    /\ df = KnowledgeBase
    /\ session = NoSession
    /\ requests = NoRequests
    /\ turns = 0
    /\ query \in ServeQueries
    /\ threshold = DefaultThreshold
    /\ scores \in [1..NumRecords -> ServeScoreRows]
    /\ record \in ToSet(database)
    /\ spell = ServeSpellChecker
    /\ best_column = "What"
    /\ retry_scores \in RetryScores
    /\ relevance_scores \in RelevanceScores
    /\ fbc = NoResult
    /\ mc = NoRoute
    /\ gr = NoResponse
    /\ idr = FALSE
    /\ close = <<>>
    /\ dcs = NoCorrection

\* the next request arrives: the results of the last call are gone
NextRequest ==
    /\ pc # "start"
    /\ turns < MaxServed
    /\ pc' = "start"
    /\ turns' = turns + 1
    /\ query' \in ServeQueries
    /\ scores' \in [1..NumRecords -> ServeScoreRows]
    /\ record' \in ToSet(database)
    /\ retry_scores' \in RetryScores
    /\ relevance_scores' \in RelevanceScores
    /\ fbc' = NoResult
    /\ mc' = NoRoute
    /\ gr' = NoResponse
    /\ idr' = FALSE
    /\ UNCHANGED <<threshold, spell, best_column, df, close, dcs, session, requests>>

NextServe ==
    \/ FindBestContext
    \/ MatchColumns
    \/ IsDomainRelevant
    \/ GetResponse
    \/ NextRequest

SpecServe == InitServe /\ [][NextServe]_vars

\* requests that name both topics, answered from either knowledge base
JoinQueries == {
    <<"a","n","g","i","n","a"," ","c","h","o","l","e","s","t","e","r","o","l">>,
    <<"w","h","a","t"," ","i","s"," ","a","n","g","i","n","a"," ","a","n","d"," ","c","h","o","l","e","s","t","e","r","o","l">>,
    <<"w","h","y"," ","a","n","g","i","n","a"," ","a","n","d"," ","c","h","o","l","e","s","t","e","r","o","l">>,
    <<"w","h","a","t"," ","i","s"," ","c","a","r","d","i","a","c">> }

InitJoin ==
    /\ pc = "start"
    /\ df \in {KnowledgeBase, IncompleteKnowledgeBase}
    /\ session = NoSession
    /\ requests = NoRequests
    /\ turns = 0
    /\ query \in JoinQueries
    /\ threshold = DefaultThreshold
    /\ scores \in [1..NumRecords -> RespondScoreRows]
    /\ record = NoRecord
    /\ spell = (<<"w","a","t">> :> <<"w","h","a","t">> @@ <<"a","n","g","n","a">> :> <<"a","n","g","i","n","a">>)
    /\ best_column \in ToSet(column_names)
    /\ retry_scores \in RetryScores
    /\ relevance_scores = <<30, 60, 90, 0, -30>>
    /\ fbc = NoResult
    /\ mc = NoRoute
    /\ gr = NoResponse
    /\ idr = FALSE
    /\ close = <<>>
    /\ dcs = NoCorrection

NextJoin == GetResponse

SpecJoin == InitJoin /\ [][NextJoin]_vars

(***************************************************************************)
(* The stateful variant, one request at a time                             *)
(***************************************************************************)
MaxTurns == 11

MatchedResponse == "Angina is chest pain caused by reduced blood flow to the heart."
GeneratedText == "Angina is chest pain; please see a doctor if it persists."

\* what the call of the generative model may do
Answers == [kind |-> "text", text |-> GeneratedText]
AnswersWithoutText == [kind |-> "no_text", text |-> ""]
Raises == [kind |-> "raises", text |-> "503 The model is overloaded."]

\* the requests: a body that is not JSON, a body without user_input, an
\* empty user_input, a greeting, a question the knowledge base matches
\* (context_response is the matched response), with each outcome of the
\* generative call, and a question it does not match (context_response is
\* None)
SessionRequests == {
    [is_json |-> FALSE, user_input |-> None, context_response |-> "",
     outcome |-> NoOutcome],
    [is_json |-> TRUE, user_input |-> None, context_response |-> "",
     outcome |-> NoOutcome],
    [is_json |-> TRUE, user_input |-> <<>>, context_response |-> "",
     outcome |-> NoOutcome],
    [is_json |-> TRUE, user_input |-> <<"K","o","n","n","i","c","h","i","w","a">>, context_response |-> "",
     outcome |-> NoOutcome],
    [is_json |-> TRUE, user_input |-> <<"A","n","g","i","n","a">>, context_response |-> MatchedResponse,
     outcome |-> Answers],
    [is_json |-> TRUE, user_input |-> <<"A","n","g","i","n","a">>, context_response |-> MatchedResponse,
     outcome |-> AnswersWithoutText],
    [is_json |-> TRUE, user_input |-> <<"A","n","g","i","n","a">>, context_response |-> MatchedResponse,
     outcome |-> Raises],
    [is_json |-> TRUE, user_input |-> <<"F","o","o","t","b","a","l","l">>, context_response |-> "",
     outcome |-> NoOutcome] }

\* the request reaches the part of get_response that appends to the history
Recorded(is_json, user_input) ==
    is_json /\ user_input # None /\ Lower(user_input) \notin greetings

Serving ==
    /\ pc = "serving"
    /\ query = <<>>
    /\ threshold = 0
    /\ scores = <<>>
    /\ record = NoRecord
    /\ spell = <<>>
    /\ best_column = ""
    /\ retry_scores = <<>>
    /\ relevance_scores = <<>>
    /\ fbc = NoResult
    /\ mc = NoRoute
    /\ gr = NoResponse
    /\ idr = FALSE
    /\ close = <<>>
    /\ dcs = NoCorrection
    /\ df = KnowledgeBase

\* the history after n matched turns
RECURSIVE PriorHistory(_)
PriorHistory(n) ==
    IF n = 0 THEN NewContextHistory
    ELSE stateful_get_response(<<"A","n","g","i","n","a">>, PriorHistory(n - 1), MatchedResponse,
                               Answers, n).context_history

PriorTurns == HistoryLimit - 1

\* a session after PriorTurns matched turns: as they left it, or cleared
InitSession ==
    /\ Serving
    /\ session \in {NoSession,
                    [has_context_history |-> TRUE,
                     context_history |-> PriorHistory(PriorTurns)]}
    /\ requests = NoRequests
    /\ turns = PriorTurns

\* the locals of a request that has returned
Returned(route, q, turn, reply) ==
    [pc |-> "done", route |-> route, is_json |-> q.is_json,
     user_input |-> q.user_input, context_response |-> q.context_response,
     outcome |-> q.outcome, turn |-> turn, session |-> reply.session,
     modified |-> reply.modified, status |-> reply.status,
     response |-> reply.response, calls |-> reply.calls,
     seen |-> NewContextHistory]

\* POST /chatbot, handled from its first line to its return
Chatbot ==
    /\ pc = "serving"
    /\ \E q \in SessionRequests :
          LET recorded == Recorded(q.is_json, q.user_input)
              turn == IF recorded THEN turns + 1 ELSE 0
              reply == chatbot(q.is_json, q.user_input, session, q.context_response,
                               q.outcome, turn)
          IN  /\ recorded => turns < MaxTurns
              /\ session' = save_session(session, reply)
              /\ requests' = [requests EXCEPT ![1] = Returned("/chatbot", q, turn, reply)]
              /\ turns' = IF recorded THEN turns + 1 ELSE turns
    /\ UNCHANGED <<pc, inputs, idr, dcs, fbc, mc, gr>>

\* POST /clear_context_history
ClearContextHistory ==
    /\ pc = "serving"
    /\ session' = clear_context_history(session)
    /\ requests' = [requests EXCEPT ![1] =
          [IdleRequest EXCEPT !.pc = "done", !.route = "/clear_context_history",
                              !.session = session', !.modified = TRUE,
                              !.status = 200,
                              !.response = "Context history cleared."]]
    /\ UNCHANGED <<pc, inputs, idr, dcs, fbc, mc, gr, turns>>

\* GET /context_history
GetContextHistory ==
    /\ pc = "serving"
    /\ requests' = [requests EXCEPT ![1] =
          [IdleRequest EXCEPT !.pc = "done", !.route = "/context_history",
                              !.session = session, !.status = 200,
                              !.seen = get_context_history(session)]]
    /\ UNCHANGED <<pc, inputs, idr, dcs, fbc, mc, gr, session, turns>>

NextSession == Chatbot \/ ClearContextHistory \/ GetContextHistory

SpecSession == InitSession /\ [][NextSession]_vars

(***************************************************************************)
(* The stateful variant, two requests of one session in progress at once   *)
(***************************************************************************)
ConcurrentTurns == 2

InitConcurrent ==
    /\ Serving
    /\ session = [has_context_history |-> TRUE,
                  context_history |-> PriorHistory(PriorTurns)]
    /\ requests = NoRequests
    /\ turns = PriorTurns

\* the request arrives and chatbot() runs up to its read of the session
ChatbotBegin(r) ==
    /\ pc = "serving"
    /\ requests[r].pc \in {"idle", "done"}
    /\ \E q \in SessionRequests :
          LET recorded == Recorded(q.is_json, q.user_input)
              own == chatbot_open(q.is_json, session)
          IN  /\ recorded => turns < PriorTurns + ConcurrentTurns
              /\ requests' = [requests EXCEPT ![r] =
                    [IdleRequest EXCEPT
                        !.pc = "opened", !.route = "/chatbot",
                        !.is_json = q.is_json, !.user_input = q.user_input,
                        !.context_response = q.context_response,
                        !.outcome = q.outcome,
                        !.turn = IF recorded THEN turns + 1 ELSE 0,
                        !.session = own.session, !.modified = own.modified]]
              /\ turns' = IF recorded THEN turns + 1 ELSE turns
    /\ UNCHANGED <<pc, inputs, idr, dcs, fbc, mc, gr, session>>

\* chatbot() runs get_response on the request's copy of the session
ChatbotRespond(r) ==
    /\ pc = "serving"
    /\ requests[r].pc = "opened"
    /\ LET q == requests[r]
           reply == chatbot_respond(q.is_json, q.user_input,
                                    [session |-> q.session, modified |-> q.modified],
                                    q.context_response, q.outcome, q.turn)
       IN  requests' = [requests EXCEPT ![r] =
              [q EXCEPT !.pc = "responded", !.session = reply.session,
                        !.modified = reply.modified, !.status = reply.status,
                        !.response = reply.response, !.calls = reply.calls]]
    /\ UNCHANGED <<pc, inputs, idr, dcs, fbc, mc, gr, session, turns>>

\* chatbot() returns: the request's copy of the session is stored
ChatbotEnd(r) ==
    /\ pc = "serving"
    /\ requests[r].pc = "responded"
    /\ session' = save_session(session, requests[r])
    /\ requests' = [requests EXCEPT ![r].pc = "done"]
    /\ UNCHANGED <<pc, inputs, idr, dcs, fbc, mc, gr, turns>>

NextConcurrent ==
    \E r \in 1..NumRequests : ChatbotBegin(r) \/ ChatbotRespond(r) \/ ChatbotEnd(r)

SpecConcurrent == InitConcurrent /\ [][NextConcurrent]_vars

(***************************************************************************)
(* Properties of the context matcher                                       *)
(***************************************************************************)
Indices == [i \in 1..Len(database) |-> i]

MaxOfSet(S) == CHOOSE m \in S : \A x \in S : x <= m
MinOfSet(S) == CHOOSE m \in S : \A x \in S : m <= x

\* record i shares a lower-cased, whitespace-split token with the query
Overlaps(i) ==
    LET qw == Split(Lower(query))
        tw == Split(Lower(database[i].trigger_word))
    IN  \E a \in 1..Len(qw) : \E b \in 1..Len(tw) : qw[a] = tw[b]

\* record i has a component score of at least 0.65
Strong(i) ==
    \/ scores[i].trigger_score >= StrongScore
    \/ \E k \in 1..Len(scores[i].synonym_scores) : scores[i].synonym_scores[k] >= StrongScore
    \/ \E k \in 1..Len(scores[i].keyword_scores) : scores[i].keyword_scores[k] >= StrongScore

\* the highest component score of record i
TopComponent(i) == LET s == RecordScores(scores[i])
                   IN  MaxOfSet({s.trigger_score, s.max_synonym_score, s.max_keyword_score})

Avg(i) == RecordScores(scores[i]).avg_score

StrongRecords == {i \in 1..Len(database) : Strong(i)}
AvgRecords == {i \in 1..Len(database) : ~Strong(i)}

\* the bests the scan is meant to hold, both starting from 0
BestStrong == MaxOfSet({0} \cup {TopComponent(i) : i \in StrongRecords})
BestAvg == MaxOfSet({0} \cup {Avg(i) : i \in AvgRecords})

Matched == pc = "find_best_context"
AnalyseMatched == pc = "analyse_find_best_context"

\* the embedding pass has decided the result
Pass2 == AnalyseMatched \/ (Matched /\ \A i \in 1..Len(database) : ~Overlaps(i))

\* C1: when some record shares a token with the query, find_best_context
\* returns exactly the records sharing a token, in index order, whatever the
\* similarity scores are.
C1_Pass1Precedence ==
    (Matched /\ \E i \in 1..Len(database) : Overlaps(i))
        => /\ ~fbc.none
           /\ fbc.records = SelectSeq(Indices, Overlaps)

\* a lexical result that leaves out the only strongly scored record
C1_Witness ==
    /\ Matched
    /\ fbc.branch = "lexical"
    /\ \E i \in StrongRecords : \A k \in 1..Len(fbc.records) : fbc.records[k] # i
    /\ \E k \in 1..Len(fbc.records) : ~Strong(fbc.records[k])

\* C2: in pass 2, when some record is strong, the result consists of strong
\* records, unless the best avg score is strictly greater than the best
\* strong score.
C2_StrongPreferred ==
    (Pass2 /\ StrongRecords # {})
        => \/ BestAvg > BestStrong
           \/ /\ ~fbc.none
              /\ fbc.records # <<>>
              /\ \A k \in 1..Len(fbc.records) : Strong(fbc.records[k])

\* a strong result although an avg record reaches the threshold
C2_Witness ==
    /\ Pass2
    /\ StrongRecords # {}
    /\ BestAvg >= threshold
    /\ fbc.branch = "strong"

\* C3: after the scan, best_max_match_score is the highest component score
\* over the strong records, best_match_score is the highest avg_score over the
\* records with all components below 0.65, and no record is in both buckets.
C3_RunningBests ==
    Pass2
        => /\ fbc.locals.best_max_match_score = BestStrong
           /\ fbc.locals.best_match_score = BestAvg
           /\ AnalyseMatched \/
                ToSet(fbc.locals.best_max_match_response)
                    \cap ToSet(fbc.locals.best_match_response) = {}

\* C4: the single-record matcher returns the earliest record among those
\* that attain the best score of the returned bucket.
C4_FirstBestWins ==
    (AnalyseMatched /\ ~fbc.none)
        => /\ fbc.branch = "strong" =>
                fbc.records[1] = MinOfSet({i \in StrongRecords : TopComponent(i) = BestStrong})
           /\ fbc.branch = "avg" =>
                fbc.records[1] = MinOfSet({i \in AvgRecords : Avg(i) = BestAvg})

\* C5: in the avg branch every returned record is a non-strong record whose
\* avg_score is the highest avg_score of the scan.
C5_AvgBranchReturnsBest ==
    (Matched /\ fbc.branch = "avg")
        => \A k \in 1..Len(fbc.records) :
              /\ ~Strong(fbc.records[k])
              /\ Avg(fbc.records[k]) = BestAvg

\* C6: for a positive threshold the result is none exactly when no record
\* shares a token with the query, no record is strong and every avg_score is
\* below the threshold; every other result is non-empty.
C6_NoneExactly ==
    (Matched \/ AnalyseMatched)
        => /\ fbc.none <=>
                /\ Pass2
                /\ StrongRecords = {}
                /\ \A i \in 1..Len(database) : Avg(i) < threshold
           /\ ~fbc.none => fbc.records # <<>>

\* no result although some record has a positive avg_score
C6_Witness ==
    /\ Matched
    /\ threshold > 0
    /\ fbc.none
    /\ \E i \in 1..Len(database) : Avg(i) > 0

\* C7: in the strong branch the result is the list of all strong records, in
\* index order; so "what is cardiac", which shares no token with a trigger
\* word, is answered with the What column of every strong record, joined by
\* the record separator.
C7_StrongBranchAllStrong ==
    /\ (Matched /\ fbc.branch = "strong")
          => fbc.records = SelectSeq(Indices, Strong)
    /\ (pc = "get_response" /\ query = <<"w","h","a","t"," ","i","s"," ","c","a","r","d","i","a","c">> /\ StrongRecords # {})
          => /\ gr.path = "direct"
             /\ gr.response =
                   JoinStr(RecordSeparator,
                           LET strong == SelectSeq(Indices, Strong)
                           IN  [k \in 1..Len(strong) |-> database[strong[k]].What])

\* "what is cardiac" answered from several strong records
C7_Witness ==
    /\ pc = "get_response"
    /\ query = <<"w","h","a","t"," ","i","s"," ","c","a","r","d","i","a","c">>
    /\ Cardinality(StrongRecords) >= 2
    /\ gr.response = database[1].What \o " \n\n " \o database[2].What

(***************************************************************************)
(* Properties of the intent router                                         *)
(***************************************************************************)
Routed == pc = "match_columns"

IntentIndices == 1..Len(intent_words)

\* the offsets at which the keywords of intent t occur in a text
OffsetsIn(text, t) ==
    {p \in 0..Len(text) :
        \E k \in 1..Len(intent_words[t].keywords) :
            LET kw == Lower(intent_words[t].keywords[k])
            IN  /\ p + Len(kw) <= Len(text)
                /\ SubSeq(text, p + 1, p + Len(kw)) = kw}

\* the offsets at which the keywords of intent t occur in the normalized query
KeywordOffsets(t) == OffsetsIn(mc.query_lower, t)

\* the intents with a keyword in the query and a filled column in the record
MatchedIntents == {t \in IntentIndices :
                      KeywordOffsets(t) # {} /\ record[intent_words[t].column] # ""}

NoKeywordOccurs == \A t \in IntentIndices : KeywordOffsets(t) = {}

\* C8: the filled columns of the intents whose keywords occur in the query
\* are returned joined by single spaces, in ascending order of the position
\* recorded for each intent.
C8_PositionOrdered ==
    (Routed /\ MatchedIntents # {})
        => LET m == mc.matching_columns
           IN  /\ Len(m) = Cardinality(MatchedIntents)
               /\ {m[j].column : j \in 1..Len(m)}
                    = {intent_words[t].column : t \in MatchedIntents}
               /\ \A j \in 1..Len(m) : m[j].response = record[m[j].column]
               /\ \A j, k \in 1..Len(m) : j < k => m[j].position <= m[k].position
               /\ mc.text = JoinStr(" ", [j \in 1..Len(m) |-> record[m[j].column]])

\* "why does X happen and what is X": the Why column precedes the What column
C8_Witness ==
    /\ Routed
    /\ query = <<"w","h","y"," ","d","o","e","s"," ","X"," ","h","a","p","p","e","n"," ","a","n","d"," ","w","h","a","t"," ","i","s"," ","X">>
    /\ record.What # "" /\ record.Why # "" /\ record.How = ""
    /\ mc.text = record.Why \o " " \o record.What

\* C9: the position recorded for an intent is the earliest offset at which
\* any keyword of that intent occurs in the normalized query.
C9_EarliestKeywordPosition ==
    (Routed /\ mc.match_found)
        => \A j \in 1..Len(mc.matching_columns) :
              \A t \in IntentIndices :
                 intent_words[t].column = mc.matching_columns[j].column
                    => mc.matching_columns[j].position = MinOfSet(KeywordOffsets(t))

\* the first intent, in table order, whose column is filled (0 if none)
FirstFilledIntent ==
    IF \E t \in IntentIndices : record[intent_words[t].column] # ""
    THEN MinOfSet({t \in IntentIndices : record[intent_words[t].column] # ""})
    ELSE 0

\* C10 as stated: with no intent keyword in the query, the column of the
\* first intent in table order whose column is filled is returned, flagged
\* as a weak match.
C10_FirstFilledColumn ==
    (Routed /\ NoKeywordOccurs /\ FirstFilledIntent # 0)
        => /\ mc.text = record[intent_words[FirstFilledIntent].column]
           /\ mc.flag = 1

\* C10 as the code has it: with no intent keyword in the query, the default
\* is the What column alone: if it is filled it is returned, flagged as a
\* weak match; if it is empty the column whose name is most similar to the
\* query is returned (empty or not) and the result is not flagged.
C10_DefaultIsWhat ==
    (Routed /\ NoKeywordOccurs)
        => IF record.What # ""
           THEN mc.text = record.What /\ mc.flag = 1
           ELSE /\ mc.best_column_name \in ToSet(column_names)
                /\ mc.text = record[mc.best_column_name]
                /\ mc.flag = 0

\* no keyword, an empty What column, and a filled column that is not returned
C10_Witness ==
    /\ Routed
    /\ NoKeywordOccurs
    /\ record.What = ""
    /\ record.Symptoms # ""
    /\ mc.text # record.Symptoms
    /\ mc.flag = 0

\* C11 as stated: the weak-match flag is set only when no intent keyword
\* occurs anywhere in the normalized query.
C11_WeakOnlyWithoutKeyword ==
    (Routed /\ mc.flag = 1) => NoKeywordOccurs

\* C11 as the code has it: the flag is set exactly when no intent with a
\* filled column has a keyword in the normalized query and the What column
\* is filled; a keyword whose column is empty does not count as a match.
C11_WeakOnlyWithoutFilledMatch ==
    Routed => (mc.flag = 1 <=> (MatchedIntents = {} /\ record.What # ""))

\* a query with an intent keyword, flagged weak
C11_Witness ==
    /\ Routed
    /\ ~NoKeywordOccurs
    /\ MatchedIntents = {}
    /\ mc.flag = 1
    /\ mc.text = record.What

(***************************************************************************)
(* Properties of the orchestrator                                          *)
(***************************************************************************)
Responded == pc = "get_response"

\* the routed texts that are not empty, joined by the record separator
JoinedTexts(routed) ==
    JoinStr(RecordSeparator,
            SelectSeq([k \in 1..Len(routed) |-> routed[k].text], LAMBDA t : t # ""))

\* C12: a direct-match response carries the disclaimer whenever at least one
\* of the returned records was answered through the default intent.
C12_DisclaimerIfAnyWeak ==
    (Responded /\ gr.path = "direct" /\ \E k \in 1..Len(gr.routed) : gr.routed[k].flag = 1)
        => gr.response = JoinedTexts(gr.routed) \o Disclaimer

\* the user's text as match_columns normalizes it
NormalizedQuery == correct_spelling(Lower(query), spell)

\* C13: a query without intent keyword that matches records whose What
\* column is filled is answered with those What columns followed by the
\* disclaimer.
C13_TriggerOnlyAnswer ==
    (/\ Responded
     /\ gr.path = "direct"
     /\ \A t \in IntentIndices : OffsetsIn(NormalizedQuery, t) = {}
     /\ \A k \in 1..Len(gr.records) : database[gr.records[k]].What # "")
        => gr.response =
              JoinStr(RecordSeparator,
                      [k \in 1..Len(gr.records) |-> database[gr.records[k]].What])
                  \o Disclaimer

\* "angina" answered with the What column of the Angina record and the disclaimer
C13_Witness ==
    /\ Responded
    /\ query = <<"a","n","g","i","n","a">>
    /\ gr.records = <<2>>
    /\ gr.response = database[2].What \o Disclaimer

\* C14: when the corrected text is matched, the turn completes without
\* raising and the response is what the direct-match step produces for the
\* corrected text.
C14_RetryAnswers ==
    (Responded /\ gr.path = "retry")
        => /\ gr.raised = ""
           /\ gr.response =
                 DirectResponse(RouteEach(gr.corrected_input, gr.records, spell, best_column))

\* record i shares a lower-cased, whitespace-split token with a text
OverlapsIn(text, i) ==
    LET qw == Split(Lower(text))
        tw == Split(Lower(database[i].trigger_word))
    IN  \E a \in 1..Len(qw) : \E b \in 1..Len(tw) : qw[a] = tw[b]

\* a row with a component score of at least 0.65
StrongRow(row) ==
    \/ row.trigger_score >= StrongScore
    \/ \E k \in 1..Len(row.synonym_scores) : row.synonym_scores[k] >= StrongScore
    \/ \E k \in 1..Len(row.keyword_scores) : row.keyword_scores[k] >= StrongScore

\* the matcher has nothing for a text whose scores are rows
NoMatchFor(text, rows) ==
    \A i \in 1..Len(database) :
        /\ ~OverlapsIn(text, i)
        /\ ~StrongRow(rows[i])
        /\ RecordScores(rows[i]).avg_score < threshold

CorrectedQuery == correct_spelling(query, spell)
DirectNone == NoMatchFor(query, scores)
RetryNone == CorrectedQuery # query => NoMatchFor(CorrectedQuery, retry_scores)
Relevant == \E k \in 1..Len(relevance_scores) : relevance_scores[k] >= DomainThreshold

Called(f) == \E k \in 1..Len(gr.calls) : gr.calls[k] = f

\* every call of f precedes every call of g
Precedes(f, g) ==
    \A j, k \in 1..Len(gr.calls) : (gr.calls[j] = f /\ gr.calls[k] = g) => j < k

\* C15: the steps are ordered and stop at the first success: a direct match
\* calls neither the spelling retry, the gate nor the generator; the
\* generator is called only after both match attempts returned none and the
\* gate is true; the refusal is returned only when all of these fail.
C15_OrderedShortCircuit ==
    Responded
        => /\ gr.calls # <<>> /\ gr.calls[1] = "find_best_context"
           /\ ~DirectNone
                => /\ gr.path = "direct"
                   /\ ~Called("correct_spelling")
                   /\ ~Called("is_domain_relevant")
                   /\ ~Called("generate_response_with_placeholder")
           /\ Precedes("correct_spelling", "is_domain_relevant")
           /\ Precedes("is_domain_relevant", "generate_response_with_placeholder")
           /\ Called("is_domain_relevant") => (DirectNone /\ RetryNone)
           /\ Called("generate_response_with_placeholder")
                => (DirectNone /\ RetryNone /\ Relevant)
           /\ gr.response = FallbackResponse
                => (DirectNone /\ RetryNone /\ ~Relevant)

\* the generator called after a retry on the corrected text found nothing
C15_Witness ==
    /\ Responded
    /\ CorrectedQuery # query
    /\ gr.calls = <<"find_best_context", "correct_spelling", "find_best_context",
                    "is_domain_relevant", "generate_response_with_placeholder">>
    /\ gr.response = PlaceholderResponse

\* C16: when both match attempts return none and no domain similarity
\* reaches 0.4, the response is the fixed refusal and the generator is not
\* called.
C16_RefusalOutOfDomain ==
    (Responded /\ DirectNone /\ RetryNone /\ ~Relevant)
        => /\ gr.response = "I'm sorry, I can only answer questions related to women's heart health. Can you please clarify your question?"
           /\ ~Called("generate_response_with_placeholder")

\* "what is football" refused although a domain similarity is 0.3
C16_Witness ==
    /\ Responded
    /\ query = <<"w","h","a","t"," ","i","s"," ","f","o","o","t","b","a","l","l">>
    /\ \E k \in 1..Len(relevance_scores) : relevance_scores[k] >= DefaultThreshold
    /\ gr.path = "refusal"
    /\ gr.response = FallbackResponse

\* the records whose trigger word is exactly "angina"
AnginaRecords == {i \in 1..Len(database) : Lower(database[i].trigger_word) = <<"a","n","g","i","n","a">>}

\* C17: "what is angina?" is answered with the What column of the record
\* whose trigger word is "angina", verbatim.
C17_ExactTriggerAnswer ==
    (Responded /\ query = <<"w","h","a","t"," ","i","s"," ","a","n","g","i","n","a","?">> /\ AnginaRecords # {})
        => \E i \in AnginaRecords : gr.response = database[i].What

\* C18: every returned record is routed with the same full query, the empty
\* routed texts are dropped, and the others are joined by " \n\n " in the
\* order of the matcher's result, which is the order of the knowledge base.
C18_JoinInMatcherOrder ==
    (Responded /\ gr.path = "direct")
        => /\ Len(gr.routed) = Len(gr.records)
           /\ \A k \in 1..Len(gr.records) :
                 gr.routed[k] = match_columns(query, database[gr.records[k]],
                                              spell, best_column)
           /\ \A j, k \in 1..Len(gr.records) : j < k => gr.records[j] < gr.records[k]
           /\ \/ gr.response = JoinedTexts(gr.routed)
              \/ gr.response = JoinedTexts(gr.routed) \o Disclaimer

\* "angina cholesterol": the Cholesterol record, first in the knowledge base,
\* routes to an empty text and only the Angina record is answered
C18_Witness ==
    /\ Responded
    /\ query = <<"a","n","g","i","n","a"," ","c","h","o","l","e","s","t","e","r","o","l">>
    /\ gr.records = <<1, 2>>
    /\ gr.routed[1].text = ""
    /\ gr.response = database[2].What \o Disclaimer

(***************************************************************************)
(* Properties of the stateful variant                                      *)
(***************************************************************************)
StoredHistory == session.context_history.history

\* the turns of the stored history, oldest first
StoredTurns == [k \in 1..Len(StoredHistory) |-> StoredHistory[k].turn]

\* the turns a..b, in order
TurnsFromTo(a, b) == [k \in 1..(b - a + 1) |-> a + k - 1]

\* C19: the stored history never has more than 10 entries and holds the most
\* recent turns in their order; after 11 turns it holds the turns 2..11.
C19_BoundedFifo ==
    pc = "serving"
        => /\ Len(StoredHistory) <= HistoryLimit
           /\ StoredTurns = TurnsFromTo(turns - Len(StoredHistory) + 1, turns)
           /\ (turns = HistoryLimit + 1 /\ Len(StoredHistory) >= HistoryLimit)
                => StoredTurns = TurnsFromTo(2, HistoryLimit + 1)

NoRequestInProgress == \A r \in 1..NumRequests : requests[r].pc \in {"idle", "done"}

\* C20: when no request is in progress, the stored history holds the most
\* recent turns, each once and in their order: no turn is lost.
C20_NoLostTurn ==
    (pc = "serving" /\ NoRequestInProgress)
        => /\ \A j, k \in 1..Len(StoredTurns) : j < k => StoredTurns[j] < StoredTurns[k]
           /\ \A t \in 1..turns :
                 t > turns - HistoryLimit => \E k \in 1..Len(StoredTurns) : StoredTurns[k] = t

\* the request that has just returned, when requests are handled one at a time
LastRequest == requests[1]

\* the request that has just returned is a chatbot request with this input
ChatbotReturned(q) == q.pc = "done" /\ q.route = "/chatbot" /\ q.is_json

HasText(q) == q.user_input # None

\* C21: a turn whose lower-cased input is a known greeting returns the fixed
\* greeting reply, leaves the history and the context list as they were, and
\* calls neither the matcher nor the generative model.
C21_GreetingShortCircuit ==
    [][LET q == requests'[1]
       IN  (ChatbotReturned(q) /\ HasText(q)
                /\ Lower(q.user_input) \in {<<"k","o","n","n","i","c","h","i","w","a">>, <<"k","o","n","b","a","n","w","a">>, <<"o","h","a","y","o","u">>})
              => /\ q.response = GreetingReply
                 /\ q.status = 200
                 /\ get_context_history(session') = get_context_history(session)
                 /\ q.calls = <<"get_response">>]_vars

\* the greeting "Konnichiwa" answered on a session that holds a history
C21_Witness ==
    /\ pc = "serving"
    /\ ChatbotReturned(LastRequest)
    /\ LastRequest.user_input = <<"K","o","n","n","i","c","h","i","w","a">>
    /\ LastRequest.response = GreetingReply
    /\ Len(session.context_history.history) >= PriorTurns

\* the last entry of the history the request has left
LastEntry(q) ==
    LET h == q.session.context_history.history IN h[Len(h)]

\* C22: when the call of the generative model raises, the turn returns
\* normally with the response "Error: <message>", and the history entry of
\* the turn records it as bot_response.
C22_NeverCrashTheTurn ==
    (/\ pc = "serving"
     /\ ChatbotReturned(LastRequest)
     /\ HasText(LastRequest)
     /\ LastRequest.context_response # ""
     /\ LastRequest.outcome.kind = "raises")
        => /\ LastRequest.status = 200
           /\ LastRequest.response = "Error: " \o LastRequest.outcome.text
           /\ LastRequest.session.context_history.history # <<>>
           /\ LastEntry(LastRequest).turn = LastRequest.turn
           /\ LastEntry(LastRequest).bot_response = LastRequest.response
           /\ session = LastRequest.session

\* a turn whose generative call raised, recorded as the eleventh turn
C22_Witness ==
    /\ pc = "serving"
    /\ ChatbotReturned(LastRequest)
    /\ LastRequest.outcome.kind = "raises"
    /\ LastRequest.turn = HistoryLimit + 1
    /\ LastEntry(LastRequest).bot_response = "Error: 503 The model is overloaded."

\* C23: a chatbot request whose user_input is missing or empty is answered
\* with status 400, performs no matching, and leaves the stored session as
\* it was.
C23_RejectsMissingInput ==
    [][LET q == requests'[1]
       IN  (ChatbotReturned(q) /\ q.user_input \in {None, <<>>})
              => /\ q.status = 400
                 /\ q.calls = <<>>
                 /\ session' = session]_vars

\* C26: after POST /clear_context_history the session holds no history, a GET
\* /context_history that follows returns an empty history and an empty
\* context, and after the next recorded turn the history holds that turn only.
C26_ClearThenFresh ==
    /\ [](LastRequest.route = "/clear_context_history"
            => /\ ~session.has_context_history
               /\ get_context_history(session) = [context |-> <<>>, history |-> <<>>])
    /\ [][LastRequest.route = "/clear_context_history"
            => LET q == requests'[1]
               IN  /\ q.route = "/context_history"
                        => q.seen = [context |-> <<>>, history |-> <<>>]
                   /\ (q.route = "/chatbot" /\ q.turn # 0)
                        => /\ Len(session'.context_history.history) = 1
                           /\ session'.context_history.history[1].turn = q.turn
                           /\ Len(session'.context_history.context) <= 1]_vars

\* the eleventh turn alone in the history: the tenth turn was cleared
C26_Witness ==
    /\ pc = "serving"
    /\ ChatbotReturned(LastRequest)
    /\ turns = HistoryLimit + 1
    /\ Len(session.context_history.history) = 1
    /\ session.context_history.history[1].turn = HistoryLimit + 1

\* all but the last element
Front(h) == SubSeq(h, 1, Len(h) - 1)

\* h is the end of g
IsSuffix(h, g) == Len(h) <= Len(g) /\ h = SubSeq(g, Len(g) - Len(h) + 1, Len(g))

\* C29: a non-greeting turn appends exactly one entry to the history, and
\* when get_response returns, the last entry holds the turn's lower-cased
\* input and the returned response.
C29_OneEntryPerTurn ==
    [][LET q == requests'[1]
           h == q.session.context_history.history
           before == get_context_history(session).history
           entry == [user_input |-> Lower(q.user_input),
                     bot_response |-> q.response, turn |-> q.turn]
       IN  (ChatbotReturned(q) /\ q.turn # 0)
              => /\ h # <<>>
                 /\ h[Len(h)] = entry
                 /\ IsSuffix(h, Append(before, entry))
                 /\ Len(before) < HistoryLimit => h = Append(before, entry)]_vars

\* a matched turn on a full history: the entry is the last of ten
C29_Witness ==
    /\ pc = "serving"
    /\ ChatbotReturned(LastRequest)
    /\ LastRequest.turn = HistoryLimit + 1
    /\ LastRequest.context_response # ""
    /\ Len(LastRequest.session.context_history.history) = HistoryLimit
    /\ LastEntry(LastRequest).user_input = <<"a","n","g","i","n","a">>
    /\ LastEntry(LastRequest).bot_response = LastRequest.response

\* C24: the gate answers "relevant" exactly when some domain-keyword
\* similarity is at least the threshold, and a query relevant at a threshold
\* is relevant at every lower one (same similarities).
C24_GateMonotonic ==
    pc = "is_domain_relevant"
        => /\ idr <=> \E k \in 1..NumDomainKeywords : relevance_scores[k] >= threshold
           /\ \A t1 \in GateThresholds :
                  (t1 <= threshold /\ idr) => is_domain_relevant(relevance_scores, t1)
           /\ \A t2 \in GateThresholds :
                  (threshold <= t2 /\ is_domain_relevant(relevance_scores, t2)) => idr

\* the best similarity is exactly the default threshold: relevant there
C24_Witness ==
    /\ pc = "is_domain_relevant"
    /\ threshold = DomainThreshold
    /\ idr
    /\ \A k \in 1..NumDomainKeywords : relevance_scores[k] <= threshold
    /\ ~is_domain_relevant(relevance_scores, threshold + 1)

C28_SingleTokenSkipsRetry ==
    (Responded /\ Len(Split(query)) = 1)
        => /\ correct_spelling(query, spell) = query
           /\ gr.path # "direct"
                 => /\ gr.path \in {"generative", "refusal"}
                    /\ gr.corrected_input = query
                    /\ SubSeq(gr.calls, 1, 3)
                           = <<"find_best_context", "correct_spelling", "is_domain_relevant">>
                    /\ Cardinality({k \in 1..Len(gr.calls) :
                                       gr.calls[k] = "find_best_context"}) = 1

\* the misspelled trigger word alone: the spell checker knows its correction
\* and the corrected text would match, yet the request goes to the gate
C28_Witness ==
    /\ Responded
    /\ query = <<"a","n","g","n","a">>
    /\ spellchecker_correction(query, spell) = <<"a","n","g","i","n","a">>
    /\ \A i \in 1..NumRecords : retry_scores[i].trigger_score >= StrongScore
    /\ gr.path = "generative"
    /\ gr.corrected_input = <<"a","n","g","n","a">>

\* C27: in maxFromEachColumn.find_best_context, when some record is strong
\* the result is the first strong record of the scan, whatever the later
\* records score; the average bucket decides only when no record is strong.
C27_FirstStrongWins ==
    pc = "max_find_best_context"
        => IF StrongRecords # {}
           THEN /\ fbc.branch = "strong"
                /\ ~fbc.none
                /\ fbc.records = <<MinOfSet(StrongRecords)>>
           ELSE /\ fbc.branch \in {"avg", "none"}
                /\ \A k \in 1..Len(fbc.records) :
                       /\ AllBelowStrong(RecordScores(scores[fbc.records[k]]))
                       /\ RecordScores(scores[fbc.records[k]]).avg_score >= threshold

\* both records are strong and the second scores higher: the first is returned
C27_Witness ==
    /\ pc = "max_find_best_context"
    /\ StrongRecords = {1, 2}
    /\ scores[1].trigger_score < scores[2].trigger_score
    /\ scores[1].synonym_scores = <<>> /\ scores[2].synonym_scores = <<>>
    /\ scores[1].keyword_scores = <<>> /\ scores[2].keyword_scores = <<>>
    /\ fbc.records = <<1>>

\* C30: at every step of dict.correct_spelling the index advances by the
\* number of input words of the window that produced the chosen correction
\* (by one when nothing was chosen), so that no word is dropped unmatched
\* and none is processed twice.
C30_ConsumesConsistently ==
    pc = "dict_correct_spelling"
        => \A k \in 1..Len(dcs.steps) :
              /\ dcs.steps[k].skip >= 1
              /\ dcs.steps[k].skip = dcs.steps[k].taken

====
